---------------------------- MODULE Spec2Model ----------------------------
(***************************************************************************)
(* A model of backend/app.py of feedplay/URL-Feed: the rate limiter and    *)
(* the decorator that wraps the outbound model calls, the two-level        *)
(* content cache, the salvage parser for the model's reply and the score   *)
(* adjustment.                                                             *)
(*                                                                         *)
(* Time is a discrete clock `now` (the value time.time() returns).  The    *)
(* durations of the program (60 s window, 30 s default retry delay, 600 s  *)
(* cache expiry) and the quota of 60 requests are scaled down to a few     *)
(* clock ticks; the comparisons made on them are those of the code.        *)
(***************************************************************************)
EXTENDS Integers, Sequences, FiniteSets, TLC

(***************************************************************************)
(* Bounds of the model.                                                    *)
(***************************************************************************)
\* last value of the clock
MaxTime == 3
\* wrapper calls started in one behaviour (rate limiter specification)
MaxCalls == 3
\* GeminiRateLimiter.max_requests (60 in the code), scaled
max_requests == 2
\* per_minute * 60 seconds (60 in the code), scaled to ticks
Window == 2
\* the fallback retry delay (30 s in the code), scaled to ticks
DefaultRetryDelay == 2

Threads == {"t1", "t2"}

\* the two functions decorated with @rate_limited_gemini_call
Funcs == {"configure_gemini", "analyze_website"}

VARIABLES
    now,                 \* time.time()
    \* ---- GeminiRateLimiter, one instance per decorated function
    request_timestamps,  \* [Funcs -> Seq(Nat)]
    last_retry_time,     \* [Funcs -> Nat]
    retry_delay,         \* [Funcs -> Nat]
    \* ---- a worker thread inside rate_limited_gemini_call.wrapper
    pc,                  \* [Threads -> position]
    fn,                  \* [Threads -> the decorated function being called]
    current_time,        \* [Threads -> local current_time of wait_if_needed]
    kept,                \* [Threads -> the list built by the comprehension]
    wake,                \* [Threads -> time at which time.sleep returns]
    attempt,             \* [Threads -> 1: in the try block, 2: in the except block]
    invocations,         \* [Threads -> times func was invoked in this wrapper call]
    model_error,         \* [Threads -> what generate_content raised inside func]
    error,               \* [Threads -> the exception the wrapper caught]
    ncalls,              \* wrapper calls started so far
    \* ---- the content cache: cached_function's closure and the module's dict
    cache,               \* cached_function.cache: key -> <<result, timestamp>>
    website_content_cache, \* url -> website_data
    site,                \* [URLs -> version of the page the site serves now]
    cpc,                 \* [Threads -> position in extract_website_content]
    curl,                \* [Threads -> the url argument]
    cres,                \* [Threads -> the (data, success) result]
    cstart,              \* [Threads -> the time the call started]
    fetched,             \* [Threads -> whether requests.get was performed]
    cprev,               \* [Threads -> the calls for the url completed before the start]
    hist,                \* [URLs -> the completed calls, in order of completion]
    nfetch,              \* extract_website_content calls started so far
    \* ---- one call of analyze_website(model, website_data, session_id)
    website_data,        \* the signals passed in
    llm,                 \* what model.generate_content will do in this call
    session_present,     \* whether session_data[session_id] exists
    rpc,                 \* position in analyze_website
    optimization_indicators, \* the local counted on lines 475-491
    response_text,       \* response.text
    analysis_data,       \* the local analysis_data
    returned,            \* the (analysis_data, success) returned
    \* ---- one call of is_large_dimension(value)
    dimension,           \* the magnitude and unit the attribute was written from
    value,               \* the attribute's text, a sequence of characters
    dpc,                 \* position: "idle", "called", "returned"
    large,               \* the value returned
    \* ---- the session store, the chat histories and the request handlers
    session_data,        \* session id -> the session's dict
    chat_histories,      \* session id -> list of {role, content} turns
    spc,                 \* [Threads -> position in the request handler]
    route,               \* [Threads -> the endpoint being served]
    ssid,                \* [Threads -> session_id of the request]
    surl,                \* [Threads -> the url of an analyze request]
    smsg,                \* [Threads -> the message of a chat request]
    sresp,               \* [Threads -> the response: status and text]
    sgen,                \* [Threads -> generate_content calls in this request]
    sempty,              \* [Threads -> the history was empty when the request came]
    last_used,           \* [SessionIds -> when a request last used the session]
    last_sweep,          \* what the last cleanup_old_sessions did
    nreq                 \* requests started so far

limVars == <<request_timestamps, last_retry_time, retry_delay, pc, fn,
             current_time, kept, wake, attempt, invocations, model_error,
             error, ncalls>>

cacheVars == <<cache, website_content_cache, site, cpc, curl, cres, cstart,
               fetched, cprev, hist, nfetch>>

repVars == <<website_data, llm, session_present, rpc,
             optimization_indicators, response_text, analysis_data, returned>>

dimVars == <<dimension, value, dpc, large>>

sessVars == <<session_data, chat_histories, spc, route, ssid, surl, smsg,
              sresp, sgen, sempty, last_used, last_sweep, nreq>>

\* what the steps of the limiter, the cache and analyze_website leave alone
extVars == <<dimVars, sessVars>>

\* what the rate limiter's steps leave alone
nonLim == <<cacheVars, repVars, extVars>>

vars == <<now, limVars, cacheVars, repVars, extVars>>

Max(a, b) == IF a >= b THEN a ELSE b
Min(a, b) == IF a <= b THEN a ELSE b

\* [ts for ts in request_timestamps if current_time - ts < per_minute * 60]
Prune(ts, ct) == SelectSeq(ts, LAMBDA x : ct - x < Window)

\* the number of recorded timestamps within the trailing window at time t
InWindow(ts, t) == Cardinality({i \in 1..Len(ts) : t - ts[i] < Window})

\* last_retry_time + retry_delay
Deadline(f) == last_retry_time[f] + retry_delay[f]

\* the retry_delay attribute of a caught exception: has = FALSE when the
\* exception has no such attribute
NoError == [has |-> FALSE, seconds |-> 0]

LimInit ==
    /\ request_timestamps = [f \in Funcs |-> <<>>]
    /\ last_retry_time = [f \in Funcs |-> 0]
    /\ retry_delay = [f \in Funcs |-> 0]
    /\ pc = [t \in Threads |-> "idle"]
    /\ fn = [t \in Threads |-> "configure_gemini"]
    /\ current_time = [t \in Threads |-> 0]
    /\ kept = [t \in Threads |-> <<>>]
    /\ wake = [t \in Threads |-> 0]
    /\ attempt = [t \in Threads |-> 1]
    /\ invocations = [t \in Threads |-> 0]
    /\ model_error = [t \in Threads |-> "none"]
    /\ error = [t \in Threads |-> NoError]
    /\ ncalls = 0

(***************************************************************************)
(* The content cache: @cached_function(expiry_seconds=600) around          *)
(* extract_website_content, which keeps website_content_cache itself.      *)
(***************************************************************************)
\* expiry_seconds (600 in the code), scaled to ticks
TTL == 2
\* extract_website_content calls started in one behaviour
MaxFetches == 3
\* versions of a page a site serves over time
MaxVersion == 2

URLs == {"u1", "u2"}

EmptyMap == [k \in {} |-> {}]

\* m[k] = v, for a dict m
Put(m, k, v) == [x \in DOMAIN m \cup {k} |-> IF x = k THEN v ELSE m[x]]

\* key = str(args) + str(kwargs), line 165, for the one positional argument
Key(url) == <<<<url>>, <<>>>>

\* website_data extracted from the page a site serves (lines 248-357): a
\* function of the markup, which is the url's page at version v
WebsiteData(url, v) == [url |-> url, ver |-> v, error |-> FALSE]

\* error_data = {'error': error_message, 'url': url}, line 369
ErrorData(url) == [url |-> url, ver |-> 0, error |-> TRUE]

NoResult == [data |-> ErrorData("u1"), success |-> FALSE, none |-> TRUE]
Result(d, ok) == [data |-> d, success |-> ok, none |-> FALSE]

CacheInit ==
    /\ cache = EmptyMap
    /\ website_content_cache = EmptyMap
    /\ site = [u \in URLs |-> 1]
    /\ cpc = [t \in Threads |-> "idle"]
    /\ curl = [t \in Threads |-> "u1"]
    /\ cres = [t \in Threads |-> NoResult]
    /\ cstart = [t \in Threads |-> 0]
    /\ fetched = [t \in Threads |-> FALSE]
    /\ cprev = [t \in Threads |-> <<>>]
    /\ hist = [u \in URLs |-> <<>>]
    /\ nfetch = 0

(***************************************************************************)
(* analyze_website: the indicator count, the model's reply, the salvage    *)
(* parser and the score adjustment.                                        *)
(***************************************************************************)
\* longest reply of the model, in tokens
MaxReplyLen == 4

\* The model's reply as a sequence of pieces of text:
\*   "P"  prose without braces or fences
\*   "F"  a ``` fence (with or without the word json after it)
\*   "J"  the text of a well-formed JSON object
\*   "B"  text from a { to a } that is not well-formed JSON
Tokens == {"P", "F", "B", "J"}

Texts == UNION {[1..n -> Tokens] : n \in 0..MaxReplyLen}

\* the fields of website_data that analyze_website's scoring reads, with
\* values on both sides of each test of lines 476-490
WebsiteDatas ==
    [async_scripts_count : {0, 1},
     defer_scripts_count : {0, 1},
     lazy_loaded_images_count : {0, 1},
     has_responsive_meta : BOOLEAN,
     media_queries_count : {2, 3},
     has_manifest : BOOLEAN,
     has_service_worker : BOOLEAN,
     aria_attributes_count : {5, 6},
     is_reputable_domain : BOOLEAN]

NoHealth == [value |-> 0, category |-> "", description |-> ""]

\* the object a "J" piece denotes once json.loads has read it: the model
\* was asked for overall_score and issues, and may leave the score out
JsonObject(score, with_score) ==
    [has_score |-> with_score,
     overall_score |-> IF with_score THEN score ELSE 0,
     has_health |-> FALSE,
     health_score |-> NoHealth,
     issues |-> <<"Call-to-Action">>]

\* create_default_response(), lines 399-417
create_default_response ==
    [has_score |-> TRUE,
     overall_score |-> 65,
     has_health |-> TRUE,
     health_score |-> [value |-> 65, category |-> "Needs Improvement",
                       description |-> "Several significant issues that need attention."],
     issues |-> <<"Error Processing">>]

NoReturn == [analysis |-> create_default_response, success |-> FALSE, none |-> TRUE]
Returned(a, ok) == [analysis |-> a, success |-> ok, none |-> FALSE]

\* what generate_content does: a reply, or an exception
Replies(texts, scores) ==
    [kind : {"text"}, text : texts, score : scores, with_score : BOOLEAN]
Failures ==
    [kind : {"quota", "other"}, text : {<<>>}, score : {0}, with_score : {TRUE}]

RepIdle ==
    /\ website_data = CHOOSE w \in WebsiteDatas :
                         /\ w.async_scripts_count = 0
                         /\ w.defer_scripts_count = 0
                         /\ w.lazy_loaded_images_count = 0
                         /\ ~w.has_responsive_meta
                         /\ w.media_queries_count = 2
                         /\ ~w.has_manifest
                         /\ ~w.has_service_worker
                         /\ w.aria_attributes_count = 5
                         /\ ~w.is_reputable_domain
    /\ llm = [kind |-> "other", text |-> <<>>, score |-> 0, with_score |-> TRUE]
    /\ session_present = TRUE
    /\ rpc = "idle"
    /\ optimization_indicators = 0
    /\ response_text = <<>>
    /\ analysis_data = create_default_response
    /\ returned = NoReturn

\* no call of is_large_dimension in progress
DimIdle ==
    /\ dimension = [magnitude |-> 0, half |-> FALSE, unit |-> <<>>]
    /\ value = <<>>
    /\ dpc = "idle"
    /\ large = FALSE

\* 3600 s, the age of line 651, scaled to ticks
SessionMaxAge == 2
\* requests started in one behaviour
MaxRequests == 2

SessionIds == {"s1", "s2"}

NoResponse == [status |-> 0, text |-> ""]

NoSweep == [removed |-> {}, stamped |-> {}, kept |-> {}, done |-> FALSE]

\* no request in progress
HandlersIdle ==
    /\ chat_histories = EmptyMap
    /\ spc = [t \in Threads |-> "idle"]
    /\ route = [t \in Threads |-> "home"]
    /\ ssid = [t \in Threads |-> "s1"]
    /\ surl = [t \in Threads |-> ""]
    /\ smsg = [t \in Threads |-> ""]
    /\ sresp = [t \in Threads |-> NoResponse]
    /\ sgen = [t \in Threads |-> 0]
    /\ sempty = [t \in Threads |-> FALSE]
    /\ last_used = [sid \in SessionIds |->
                       IF sid \in DOMAIN session_data THEN 0 ELSE 0 - SessionMaxAge]
    /\ last_sweep = NoSweep
    /\ nreq = 0

\* session_data = {} at line 36
SessInit == session_data = EmptyMap /\ HandlersIdle

ExtIdle == DimIdle /\ SessInit

Init == now = 0 /\ LimInit /\ CacheInit /\ RepIdle /\ ExtIdle

\* the clock advances
Tick ==
    /\ now < MaxTime
    /\ now' = now + 1
    /\ UNCHANGED <<limVars, cacheVars, repVars, extVars>>

\* a request handler calls a decorated function: wrapper(*args, **kwargs)
Call(t, f) ==
    /\ pc[t] = "idle"
    /\ ncalls < MaxCalls
    /\ ncalls' = ncalls + 1
    /\ fn' = [fn EXCEPT ![t] = f]
    /\ attempt' = [attempt EXCEPT ![t] = 1]
    /\ invocations' = [invocations EXCEPT ![t] = 0]
    /\ model_error' = [model_error EXCEPT ![t] = "none"]
    /\ pc' = [pc EXCEPT ![t] = "wait"]
    /\ UNCHANGED <<now, nonLim, request_timestamps, last_retry_time, retry_delay,
                   current_time, kept, wake,
                   error>>

\* wait_if_needed, lines 70-76: read the clock, sleep out a retry delay
WaitStart(t) ==
    /\ pc[t] = "wait"
    /\ current_time' = [current_time EXCEPT ![t] = now]
    /\ IF now < Deadline(fn[t])
         THEN /\ wake' = [wake EXCEPT ![t] = now + (Deadline(fn[t]) - now)]
              /\ pc' = [pc EXCEPT ![t] = "sleep_retry"]
         ELSE /\ pc' = [pc EXCEPT ![t] = "prune"]
              /\ UNCHANGED wake
    /\ UNCHANGED <<now, nonLim, request_timestamps, last_retry_time, retry_delay, fn,
                   kept, attempt, invocations, model_error, ncalls,
                   error>>

\* time.sleep(wait_time) of line 76 returns
SleepRetryDone(t) ==
    /\ pc[t] = "sleep_retry"
    /\ now >= wake[t]
    /\ pc' = [pc EXCEPT ![t] = "prune"]
    /\ wake' = [wake EXCEPT ![t] = 0]
    /\ UNCHANGED <<now, nonLim, request_timestamps, last_retry_time, retry_delay, fn,
                   current_time, kept, attempt, invocations, model_error,
                   ncalls,
                   error>>

\* lines 79-82, the list comprehension reads the shared list
PruneRead(t) ==
    /\ pc[t] = "prune"
    /\ kept' = [kept EXCEPT ![t] = Prune(request_timestamps[fn[t]], current_time[t])]
    /\ pc' = [pc EXCEPT ![t] = "assign"]
    /\ UNCHANGED <<now, nonLim, request_timestamps, last_retry_time, retry_delay, fn,
                   current_time, wake, attempt, invocations, model_error,
                   ncalls,
                   error>>

\* lines 79-82, the assignment to self.request_timestamps
PruneWrite(t) ==
    /\ pc[t] = "assign"
    /\ request_timestamps' = [request_timestamps EXCEPT ![fn[t]] = kept[t]]
    /\ kept' = [kept EXCEPT ![t] = <<>>]
    /\ pc' = [pc EXCEPT ![t] = "check"]
    /\ UNCHANGED <<now, nonLim, last_retry_time, retry_delay, fn, current_time, wake,
                   attempt, invocations, model_error, ncalls,
                   error>>

\* where an exception raised inside the wrapper's try or except block goes:
\* a non-quota error is re-raised (line 138), one in the except block propagates
RaisedOther(t) == [pc EXCEPT ![t] = "raised"]

\* lines 85-89: the quota check and the sleep until the oldest call leaves
\* the window; time.sleep raises ValueError on a negative length
QuotaCheck(t) ==
    /\ pc[t] = "check"
    /\ LET ts == request_timestamps[fn[t]]
           wait_time == Window - (current_time[t] - ts[1])
       IN IF Len(ts) >= max_requests
            THEN IF wait_time < 0
                   THEN /\ pc' = RaisedOther(t)
                        /\ UNCHANGED wake
                   ELSE /\ wake' = [wake EXCEPT ![t] = now + wait_time]
                        /\ pc' = [pc EXCEPT ![t] = "sleep_quota"]
            ELSE /\ pc' = [pc EXCEPT ![t] = "record"]
                 /\ UNCHANGED wake
    /\ UNCHANGED <<now, nonLim, request_timestamps, last_retry_time, retry_delay, fn,
                   current_time, kept, attempt, invocations, model_error,
                   ncalls,
                   error>>

\* time.sleep(wait_time) of line 89 returns
SleepQuotaDone(t) ==
    /\ pc[t] = "sleep_quota"
    /\ now >= wake[t]
    /\ pc' = [pc EXCEPT ![t] = "record"]
    /\ wake' = [wake EXCEPT ![t] = 0]
    /\ UNCHANGED <<now, nonLim, request_timestamps, last_retry_time, retry_delay, fn,
                   current_time, kept, attempt, invocations, model_error,
                   ncalls,
                   error>>

\* line 92: self.request_timestamps.append(current_time); wait_if_needed
\* returns and its local is gone
Record(t) ==
    /\ pc[t] = "record"
    /\ request_timestamps' =
         [request_timestamps EXCEPT ![fn[t]] = Append(@, current_time[t])]
    /\ current_time' = [current_time EXCEPT ![t] = 0]
    /\ pc' = [pc EXCEPT ![t] = "invoke"]
    /\ UNCHANGED <<now, nonLim, last_retry_time, retry_delay, fn, kept, wake,
                   attempt, invocations, model_error, ncalls,
                   error>>

\* what func(*args, **kwargs) does as seen by the wrapper, given what the
\* library call inside it did ("ok", "quota": an error whose text has quota
\* or 429, "other").  configure_gemini has no handler of its own;
\* analyze_website catches every exception of generate_content (lines
\* 562-589) and returns the default report with success = False.
FuncOutcome(f, lib) ==
    IF f = "analyze_website" THEN "return" ELSE
    IF lib = "ok" THEN "return" ELSE lib

\* lines 125 and 135: return func(*args, **kwargs)
Invoke(t, lib, e) ==
    /\ pc[t] = "invoke"
    /\ invocations' = [invocations EXCEPT ![t] = @ + 1]
    /\ model_error' = [model_error EXCEPT ![t] =
                         IF attempt[t] = 1 THEN lib ELSE @]
    /\ error' = [error EXCEPT ![t] =
                    IF FuncOutcome(fn[t], lib) = "quota" THEN e ELSE NoError]
    /\ LET out == FuncOutcome(fn[t], lib)
       IN pc' = IF out = "return" THEN [pc EXCEPT ![t] = "returned"]
                ELSE IF out = "quota" /\ attempt[t] = 1
                       THEN [pc EXCEPT ![t] = "handle"]
                       ELSE RaisedOther(t)
    /\ UNCHANGED <<now, nonLim, request_timestamps, last_retry_time, retry_delay, fn,
                   current_time, kept, wake, attempt, ncalls>>

\* the retry_delay.seconds an error may carry
RetryDelays == {1, DefaultRetryDelay}

\* the exceptions a quota failure may raise: with or without retry_delay
QuotaErrors == {NoError} \cup [has : {TRUE}, seconds : RetryDelays]

\* line 101: error.retry_delay.seconds if hasattr(error, 'retry_delay') else 30
RetryDelayOf(e) == IF e.has THEN e.seconds ELSE DefaultRetryDelay

\* handle_rate_limit_error(error), lines 94-109, then line 134
HandleRateLimitError(t, d) ==
    /\ pc[t] = "handle"
    /\ d = RetryDelayOf(error[t])
    /\ retry_delay' = [retry_delay EXCEPT ![fn[t]] = d]
    /\ last_retry_time' = [last_retry_time EXCEPT ![fn[t]] = now]
    /\ attempt' = [attempt EXCEPT ![t] = 2]
    /\ error' = [error EXCEPT ![t] = NoError]
    /\ pc' = [pc EXCEPT ![t] = "wait"]
    /\ UNCHANGED <<now, nonLim, request_timestamps, fn, current_time, kept, wake,
                   invocations, model_error, ncalls>>

\* the wrapper call is over (a value returned or an exception propagated);
\* its locals are gone
Finish(t) ==
    /\ pc[t] \in {"returned", "raised"}
    /\ pc' = [pc EXCEPT ![t] = "idle"]
    /\ fn' = [fn EXCEPT ![t] = "configure_gemini"]
    /\ current_time' = [current_time EXCEPT ![t] = 0]
    /\ attempt' = [attempt EXCEPT ![t] = 1]
    /\ invocations' = [invocations EXCEPT ![t] = 0]
    /\ model_error' = [model_error EXCEPT ![t] = "none"]
    /\ error' = [error EXCEPT ![t] = NoError]
    /\ UNCHANGED <<now, nonLim, request_timestamps, last_retry_time, retry_delay,
                   kept, wake, ncalls>>

Next ==
    \/ Tick
    \/ \E t \in Threads, f \in Funcs : Call(t, f)
    \/ \E t \in Threads : WaitStart(t)
    \/ \E t \in Threads : SleepRetryDone(t)
    \/ \E t \in Threads : PruneRead(t)
    \/ \E t \in Threads : PruneWrite(t)
    \/ \E t \in Threads : QuotaCheck(t)
    \/ \E t \in Threads : SleepQuotaDone(t)
    \/ \E t \in Threads : Record(t)
    \/ \E t \in Threads, lib \in {"ok", "quota", "other"}, e \in QuotaErrors :
           Invoke(t, lib, e)
    \/ \E t \in Threads, d \in RetryDelays : HandleRateLimitError(t, d)
    \/ \E t \in Threads : Finish(t)

Spec == Init /\ [][Next]_vars

(***************************************************************************)
(* Claims about the rate limiter and its decorator, checked under Spec.    *)
(***************************************************************************)

\* C1: immediately after an acquire (wait_if_needed) records its call, the
\* number of recorded timestamps of that limiter lying within the trailing
\* window, measured at the moment of recording, is at most max_requests,
\* also when acquires of several threads interleave.
C1_WindowQuota ==
    [][\A t \in Threads :
         (pc[t] = "record" /\ pc'[t] = "invoke")
            => InWindow(request_timestamps'[fn[t]], now) <= max_requests]_vars

\* C2: configure_gemini and analyze_website go through one shared limiter
\* state: a call recorded, or a forced-retry deadline set, through one of
\* them is in the state the next acquire of the other consults.
C2_OneSharedLimiter ==
    \A f, g \in Funcs :
        /\ request_timestamps[f] = request_timestamps[g]
        /\ last_retry_time[f] = last_retry_time[g]
        /\ retry_delay[f] = retry_delay[g]

\* C3: when generate_content inside analyze_website fails with a quota/429
\* error, the limiter's forced-retry deadline is set and the call is made
\* exactly once more before analyze_website's wrapper returns.
C3_AnalyzeRetriedOnQuota ==
    \A t \in Threads :
        (pc[t] = "returned" /\ fn[t] = "analyze_website"
            /\ model_error[t] = "quota")
        => (invocations[t] = 2 /\ retry_delay["analyze_website"] > 0)

(***************************************************************************)
(* extract_website_content(url) through cached_function's wrapper.         *)
(***************************************************************************)

\* the expiry test of line 170
Fresh(timestamp) == now - timestamp < TTL

\* a completed call, as later calls remember it; hit: it was served from
\* the wrapper's cache (line 172) and stored nothing
Completed(t, res, hit) ==
    [res |-> res, at |-> now, fetched |-> fetched[t], hit |-> hit]

\* wrapper, lines 165-172, under the closure's lock: a fresh entry is returned
CacheLookup(t, url) ==
    /\ cpc[t] = "idle"
    /\ nfetch < MaxFetches
    /\ nfetch' = nfetch + 1
    /\ curl' = [curl EXCEPT ![t] = url]
    /\ cstart' = [cstart EXCEPT ![t] = now]
    /\ fetched' = [fetched EXCEPT ![t] = FALSE]
    /\ cprev' = [cprev EXCEPT ![t] = hist[url]]
    /\ IF Key(url) \in DOMAIN cache /\ Fresh(cache[Key(url)][2])
         THEN /\ cres' = [cres EXCEPT ![t] = cache[Key(url)][1]]
              /\ hist' = [hist EXCEPT ![url] =
                            Append(@, Completed(t, cache[Key(url)][1], TRUE))]
              /\ cpc' = [cpc EXCEPT ![t] = "ret"]
         ELSE /\ cpc' = [cpc EXCEPT ![t] = "func"]
              /\ UNCHANGED <<cres, hist>>
    /\ UNCHANGED <<now, limVars, repVars, extVars, cache, website_content_cache, site>>

\* extract_website_content, lines 235-238: the module's dict is consulted
ContentCacheCheck(t) ==
    /\ cpc[t] = "func"
    /\ IF curl[t] \in DOMAIN website_content_cache
         THEN /\ cres' = [cres EXCEPT ![t] =
                            Result(website_content_cache[curl[t]], TRUE)]
              /\ cpc' = [cpc EXCEPT ![t] = "store"]
         ELSE /\ cpc' = [cpc EXCEPT ![t] = "fetch"]
              /\ UNCHANGED cres
    /\ UNCHANGED <<now, limVars, repVars, extVars, cache, website_content_cache, site, curl,
                   cstart, fetched, cprev, hist, nfetch>>

\* lines 244-357 and 364-370: requests.get, raise_for_status and the parse;
\* ok = FALSE is a network error, a non-2xx status or a parse error
Fetch(t, ok) ==
    /\ cpc[t] = "fetch"
    /\ fetched' = [fetched EXCEPT ![t] = TRUE]
    /\ IF ok
         THEN /\ cres' = [cres EXCEPT ![t] =
                            Result(WebsiteData(curl[t], site[curl[t]]), TRUE)]
              /\ cpc' = [cpc EXCEPT ![t] = "put"]
         ELSE /\ cres' = [cres EXCEPT ![t] = Result(ErrorData(curl[t]), FALSE)]
              /\ cpc' = [cpc EXCEPT ![t] = "store"]
    /\ UNCHANGED <<now, limVars, repVars, extVars, cache, website_content_cache, site, curl,
                   cstart, cprev, hist, nfetch>>

\* line 360: website_content_cache[url] = website_data
ContentCachePut(t) ==
    /\ cpc[t] = "put"
    /\ website_content_cache' = Put(website_content_cache, curl[t], cres[t].data)
    /\ cpc' = [cpc EXCEPT ![t] = "store"]
    /\ UNCHANGED <<now, limVars, repVars, extVars, cache, site, curl, cres, cstart, fetched,
                   cprev, hist, nfetch>>

\* what the wrapper keeps of a result
StoredResult(res) == res

\* wrapper, lines 175-178, under the closure's lock: the result is cached
\* with the time of storing, and returned
CacheStore(t) ==
    /\ cpc[t] = "store"
    /\ cache' = Put(cache, Key(curl[t]), <<StoredResult(cres[t]), now>>)
    /\ hist' = [hist EXCEPT ![curl[t]] = Append(@, Completed(t, cres[t], FALSE))]
    /\ cpc' = [cpc EXCEPT ![t] = "ret"]
    /\ UNCHANGED <<now, limVars, repVars, extVars, website_content_cache, site, curl, cres,
                   cstart, fetched, cprev, nfetch>>

\* the caller has the result; the call's locals are gone
CacheReturn(t) ==
    /\ cpc[t] = "ret"
    /\ cpc' = [cpc EXCEPT ![t] = "idle"]
    /\ curl' = [curl EXCEPT ![t] = "u1"]
    /\ cres' = [cres EXCEPT ![t] = NoResult]
    /\ cstart' = [cstart EXCEPT ![t] = 0]
    /\ fetched' = [fetched EXCEPT ![t] = FALSE]
    /\ cprev' = [cprev EXCEPT ![t] = <<>>]
    /\ UNCHANGED <<now, limVars, repVars, extVars, cache, website_content_cache, site, hist,
                   nfetch>>

\* the site publishes a new version of its page
SiteChange(url) ==
    /\ site[url] < MaxVersion
    /\ site' = [site EXCEPT ![url] = @ + 1]
    /\ UNCHANGED <<now, limVars, repVars, extVars, cache, website_content_cache, cpc, curl,
                   cres, cstart, fetched, cprev, hist, nfetch>>

CacheNext ==
    \/ Tick
    \/ \E t \in Threads, url \in URLs : CacheLookup(t, url)
    \/ \E t \in Threads : ContentCacheCheck(t)
    \/ \E t \in Threads, ok \in BOOLEAN : Fetch(t, ok)
    \/ \E t \in Threads : ContentCachePut(t)
    \/ \E t \in Threads : CacheStore(t)
    \/ \E t \in Threads : CacheReturn(t)
    \/ \E url \in URLs : SiteChange(url)

SpecCache == Init /\ [][CacheNext]_vars

(***************************************************************************)
(* Claims about the content cache, checked under SpecCache.                *)
(***************************************************************************)

\* the last of a nonempty sequence
Last(q) == q[Len(q)]

\* C4: fetch failures are never served from the cache: a call for a URL
\* whose previous call returned (error, success = false) performs the fetch
\* again, at any time.
C4_FailuresNotStored ==
    \A t \in Threads :
        (cpc[t] = "ret" /\ Len(cprev[t]) > 0 /\ ~Last(cprev[t]).res.success)
        => fetched[t]

\* C5: a call for a URL whose last successful fetch is older than the TTL
\* performs a new network fetch and returns freshly extracted signals.
C5_ExpiredEntryRefetched ==
    \A t \in Threads :
        LET oks == {i \in 1..Len(cprev[t]) :
                       cprev[t][i].fetched /\ cprev[t][i].res.success}
        IN (cpc[t] = "ret" /\ oks # {}
              /\ \A i \in oks : cstart[t] - cprev[t][i].at >= TTL)
           => fetched[t]

\* C6: a call that starts within the TTL of the completion of an earlier
\* call for the same URL (one that ran the pipeline and had its result
\* stored) performs no network fetch and returns the same (data, success)
\* result as that earlier call.
C6_HitReturnsEarlierResult ==
    \A t \in Threads :
        cpc[t] = "ret" =>
            \A i \in 1..Len(cprev[t]) :
                (~cprev[t][i].hit /\ cstart[t] - cprev[t][i].at < TTL)
                    => (~fetched[t] /\ cres[t] = cprev[t][i].res)

(***************************************************************************)
(* analyze_website(model, website_data, session_id), lines 472-589.        *)
(***************************************************************************)

\* lines 475-491: one increment per test that holds
OptimizationIndicators(w) ==
      (IF w.async_scripts_count > 0 THEN 1 ELSE 0)
    + (IF w.defer_scripts_count > 0 THEN 1 ELSE 0)
    + (IF w.lazy_loaded_images_count > 0 THEN 1 ELSE 0)
    + (IF w.has_responsive_meta THEN 1 ELSE 0)
    + (IF w.media_queries_count > 2 THEN 1 ELSE 0)
    + (IF w.has_manifest THEN 1 ELSE 0)
    + (IF w.has_service_worker THEN 1 ELSE 0)
    + (IF w.aria_attributes_count > 5 THEN 1 ELSE 0)

\* json.loads(text) succeeds: the text is one well-formed JSON object
Loads(text) == text = <<"J">>

\* positions of the pieces of a text that are in a set
Positions(text, S) == {i \in 1..Len(text) : text[i] \in S}

SetMin(S) == CHOOSE x \in S : \A y \in S : x <= y
SetMax(S) == CHOOSE x \in S : \A y \in S : x >= y

\* re.search(r'```(?:json)?\s*([\s\S]*?)\s*```', text), line 385: a match
\* needs an opening and a closing fence; the group is what lies between the
\* first fence and the next one
FenceMatches(text) == Cardinality(Positions(text, {"F"})) >= 2
FenceGroup(text) ==
    LET fs == Positions(text, {"F"})
        a == SetMin(fs)
        b == SetMin(fs \ {a})
    IN SubSeq(text, a + 1, b - 1)

\* re.search(r'(\{[\s\S]*\})', text), line 391: greedy, from the first {
\* to the last }
BraceMatches(text) == Positions(text, {"J", "B"}) # {}
BraceGroup(text) ==
    LET bs == Positions(text, {"J", "B"})
    IN SubSeq(text, SetMin(bs), SetMax(bs))

\* parse_json_from_response(text), lines 373-397; obj is the object the
\* reply's JSON text denotes.  An exception of json.loads on line 388 or
\* 393 is caught on line 394 and the default is returned on line 397.
parse_json_from_response(text, obj) ==
    IF text = <<>> THEN create_default_response
    ELSE IF Loads(text) THEN obj
    ELSE IF FenceMatches(text)
           THEN IF Loads(FenceGroup(text)) THEN obj
                ELSE create_default_response
    ELSE IF BraceMatches(text)
           THEN IF Loads(BraceGroup(text)) THEN obj
                ELSE create_default_response
    ELSE create_default_response

\* a slip the tier chain could have: a boundary compared with > instead of >=
Category_strict(score) ==
    IF score > 90 THEN "Excellent"
    ELSE IF score >= 80 THEN "Very Good"
    ELSE IF score >= 70 THEN "Good"
    ELSE IF score >= 60 THEN "Needs Improvement"
    ELSE IF score >= 50 THEN "Poor"
    ELSE "Critical"

\* the if/elif chain of lines 445-462
Category(score) ==
    IF score >= 90 THEN "Excellent"
    ELSE IF score >= 80 THEN "Very Good"
    ELSE IF score >= 70 THEN "Good"
    ELSE IF score >= 60 THEN "Needs Improvement"
    ELSE IF score >= 50 THEN "Poor"
    ELSE "Critical"

Description(score) ==
    IF score >= 90
      THEN "Your website is optimized for conversions with only minor improvements needed."
    ELSE IF score >= 80
      THEN "Your website performs well but has some opportunities for improvement."
    ELSE IF score >= 70
      THEN "Your website has a solid foundation but several areas need attention."
    ELSE IF score >= 60
      THEN "Your website has some issues that may be impacting conversions."
    ELSE IF score >= 50
      THEN "Your website has significant conversion issues that need attention."
    ELSE "Your website has critical issues that are severely limiting conversions."

\* a slip the score adjustment could have: the reputation bonus not capped
calculate_health_score_uncapped(overall_score, is_reputable, indicators) ==
    LET s1 == IF is_reputable
                THEN overall_score + Min(10, Max(5, overall_score \div 10))
                ELSE overall_score
        s2 == IF indicators > 0 THEN Min(100, s1 + Min(5, indicators)) ELSE s1
    IN [value |-> s2, category |-> Category(s2), description |-> Description(s2)]

\* calculate_health_score(overall_score, is_reputable, optimization_indicators),
\* lines 420-468
calculate_health_score(overall_score, is_reputable, indicators) ==
    LET s1 == IF is_reputable
                THEN Min(100, overall_score
                                + Min(10, Max(5, overall_score \div 10)))
                ELSE overall_score
        s2 == IF indicators > 0 THEN Min(100, s1 + Min(5, indicators)) ELSE s1
    IN [value |-> s2, category |-> Category(s2), description |-> Description(s2)]

\* lines 475-491
CountIndicators ==
    /\ rpc = "count"
    /\ optimization_indicators' = OptimizationIndicators(website_data)
    /\ rpc' = "generate"
    /\ UNCHANGED <<now, limVars, cacheVars, extVars, website_data, llm,
                   session_present, response_text, analysis_data, returned>>

\* lines 563-565, and 583-589 when generate_content raises
GenerateContent ==
    /\ rpc = "generate"
    /\ IF llm.kind = "text"
         THEN /\ response_text' = llm.text
              /\ rpc' = "parse"
              /\ UNCHANGED returned
         ELSE /\ returned' = Returned(create_default_response, FALSE)
              /\ rpc' = "done"
              /\ UNCHANGED response_text
    /\ UNCHANGED <<now, limVars, cacheVars, extVars, website_data, llm,
                   session_present, optimization_indicators, analysis_data>>

\* line 568
ParseResponse ==
    /\ rpc = "parse"
    /\ analysis_data' = parse_json_from_response(
                            response_text, JsonObject(llm.score, llm.with_score))
    /\ rpc' = "score"
    /\ UNCHANGED <<now, limVars, cacheVars, extVars, website_data, llm,
                   session_present, optimization_indicators, response_text,
                   returned>>

\* lines 571-576
AddHealthScore ==
    /\ rpc = "score"
    /\ analysis_data' =
         IF analysis_data.has_score
           THEN [analysis_data EXCEPT
                   !.has_health = TRUE,
                   !.health_score = calculate_health_score(
                                        analysis_data.overall_score,
                                        website_data.is_reputable_domain,
                                        optimization_indicators)]
           ELSE analysis_data
    /\ rpc' = "store"
    /\ UNCHANGED <<now, limVars, cacheVars, extVars, website_data, llm,
                   session_present, optimization_indicators, response_text,
                   returned>>

\* what analyze_website returns when nothing raised, line 582
Success(a) == Returned(a, TRUE)

\* lines 579-582; session_data[session_id] raises KeyError when the session
\* is gone, which lines 583-589 turn into the default report
StoreAnalysis ==
    /\ rpc = "store"
    /\ returned' = IF session_present
                     THEN Success(analysis_data)
                     ELSE Returned(create_default_response, FALSE)
    /\ rpc' = "done"
    /\ UNCHANGED <<now, limVars, cacheVars, extVars, website_data, llm,
                   session_present, optimization_indicators, response_text,
                   analysis_data>>

ReportNext ==
    \/ CountIndicators
    \/ GenerateContent
    \/ ParseResponse
    \/ AddHealthScore
    \/ StoreAnalysis

\* the raw scores the model's JSON may carry (report specification)
SampleScores == {0, 45, 80, 100}

\* signal sets with no, some and all indicators (report specification)
SampleWebsiteData ==
    {w \in WebsiteDatas :
        /\ w.async_scripts_count = w.defer_scripts_count
        /\ w.async_scripts_count = w.lazy_loaded_images_count
        /\ w.has_manifest = w.has_service_worker
        /\ w.has_manifest = w.has_responsive_meta
        /\ (w.media_queries_count > 2) = w.has_manifest
        /\ (w.aria_attributes_count > 5) = w.has_manifest}

\* analyze_website is entered with some signals and some model behaviour
ReportStart(wds, llms) ==
    /\ website_data \in wds
    /\ llm \in llms
    /\ session_present \in BOOLEAN
    /\ rpc = "count"
    /\ optimization_indicators = 0
    /\ response_text = <<>>
    /\ analysis_data = create_default_response
    /\ returned = NoReturn

InitReport ==
    /\ now = 0 /\ LimInit /\ CacheInit /\ ExtIdle
    /\ ReportStart(SampleWebsiteData, Replies(Texts, SampleScores) \cup Failures)

SpecReport == InitReport /\ [][ReportNext]_vars

\* every raw score of 0..100 with every signal set, the model replying with
\* the JSON it was asked for
InitScore ==
    /\ now = 0 /\ LimInit /\ CacheInit /\ ExtIdle
    /\ ReportStart(WebsiteDatas, Replies({<<"J">>}, 0..100))

SpecScore == InitScore /\ [][ReportNext]_vars

\* how far outside 0..100 the model's overall_score may lie
MaxExcess == 20

\* any integer may stand in the reply's JSON: json.loads does not validate
\* the range and neither analyze_website nor calculate_health_score clamps
\* from below
InitAnyScore ==
    /\ now = 0 /\ LimInit /\ CacheInit /\ ExtIdle
    /\ ReportStart(SampleWebsiteData,
                   Replies({<<"J">>}, (0 - MaxExcess)..(100 + MaxExcess)))

SpecAnyScore == InitAnyScore /\ [][ReportNext]_vars

(***************************************************************************)
(* Claims about analyze_website, checked under SpecReport and SpecScore.   *)
(***************************************************************************)

\* C7: when the model's reply is plain prose with no JSON in it,
\* analyze_website returns the fixed default report (overall_score 65, one
\* "Error Processing" issue) together with success = false.
C7_ProseGivesDefaultAndFailure ==
    (/\ rpc = "done"
     /\ llm.kind = "text"
     /\ Len(llm.text) > 0
     /\ \A i \in 1..Len(llm.text) : llm.text[i] = "P")
    => (/\ returned.analysis.overall_score = 65
        /\ returned.analysis.issues = <<"Error Processing">>
        /\ returned.success = FALSE)

\* C8: parse_json_from_response is an ordered chain in which each strategy
\* is attempted when all earlier ones failed: whole text, then fenced
\* block, then brace-delimited substring; the default is returned only when
\* all three fail.
C8_SalvageChain ==
    rpc = "score" =>
        LET text == response_text
            obj == JsonObject(llm.score, llm.with_score)
            whole == Loads(text)
            fenced == FenceMatches(text) /\ Loads(FenceGroup(text))
            braces == BraceMatches(text) /\ Loads(BraceGroup(text))
        IN analysis_data = IF text # <<>> /\ (whole \/ fenced \/ braces)
                             THEN obj
                             ELSE create_default_response

\* C9: the report analyze_website returns for a reply that carried the
\* model's JSON has the adjusted score as its overall_score: overall_score
\* equals health_score.value, the value the tier is derived from.
C9_OverallScoreIsAdjusted ==
    (/\ rpc = "done"
     /\ returned.success
     /\ returned.analysis.has_health
     /\ returned.analysis.issues # create_default_response.issues)
    => returned.analysis.overall_score = returned.analysis.health_score.value

\* the indicator conditions of lines 476-490 that hold for a signal set
IndicatorsHolding(w) ==
    {c \in {<<"async", w.async_scripts_count > 0>>,
            <<"defer", w.defer_scripts_count > 0>>,
            <<"lazy", w.lazy_loaded_images_count > 0>>,
            <<"viewport", w.has_responsive_meta>>,
            <<"media", w.media_queries_count > 2>>,
            <<"manifest", w.has_manifest>>,
            <<"worker", w.has_service_worker>>,
            <<"aria", w.aria_attributes_count > 5>>} : c[2]}

\* C10: for every raw score s in 0..100, reputable flag r and indicator
\* count k, the health score's value is min(100, s' + min(5, k)) with
\* s' = min(100, s + min(10, max(5, s // 10))) if r and s' = s otherwise;
\* it is never below s nor above 100; and k is the number of the eight
\* indicator conditions that hold for the signals.
C10_ScoreArithmetic ==
    (rpc \in {"store", "done"} /\ analysis_data.has_health)
    => LET s == analysis_data.overall_score
           r == website_data.is_reputable_domain
           k == optimization_indicators
           s1 == IF r THEN Min(100, s + Min(10, Max(5, s \div 10))) ELSE s
           v == analysis_data.health_score.value
       IN /\ v = Min(100, s1 + Min(5, k))
          /\ v >= s
          /\ v <= 100
          /\ k = Cardinality(IndicatorsHolding(website_data))
          /\ k \in 0..8

\* C10's example: s = 80, reputable, no indicator: 88
C10_Witness ==
    /\ rpc = "done"
    /\ returned.success
    /\ returned.analysis.overall_score = 80
    /\ website_data.is_reputable_domain
    /\ optimization_indicators = 0
    /\ returned.analysis.health_score.value = 88

\* C11: every analysis result returned with the success flag has both
\* overall_score and health_score.value within 0..100, whatever integer the
\* overall_score of the model's reply is.
C11_ScoreWithinRange ==
    (rpc = "done" /\ returned.success /\ returned.analysis.has_score)
    => /\ returned.analysis.overall_score \in 0..100
       /\ returned.analysis.has_health
       /\ returned.analysis.health_score.value \in 0..100

\* the six tiers in their order
TierRank(category) ==
    CASE category = "Critical" -> 1
      [] category = "Poor" -> 2
      [] category = "Needs Improvement" -> 3
      [] category = "Good" -> 4
      [] category = "Very Good" -> 5
      [] category = "Excellent" -> 6
      [] OTHER -> 0

\* the tier the stated boundaries give a score
TierOf(v) ==
    CHOOSE c \in {"Critical", "Poor", "Needs Improvement", "Good",
                  "Very Good", "Excellent"} :
        \/ c = "Critical" /\ v < 50
        \/ c = "Poor" /\ v \in 50..59
        \/ c = "Needs Improvement" /\ v \in 60..69
        \/ c = "Good" /\ v \in 70..79
        \/ c = "Very Good" /\ v \in 80..89
        \/ c = "Excellent" /\ v >= 90

\* C12: for every final score in 0..100 the health score's category is
\* exactly the one tier of the stated boundaries (Critical < 50, Poor
\* 50..59, Needs Improvement 60..69, Good 70..79, Very Good 80..89,
\* Excellent >= 90), and no lower score is given a higher tier.
C12_TierPartition ==
    (rpc \in {"store", "done"} /\ analysis_data.has_health
       /\ analysis_data.health_score.value \in 0..100)
    => LET v == analysis_data.health_score.value
           c == analysis_data.health_score.category
       IN /\ c = TierOf(v)
          /\ TierRank(c) \in 1..6
          /\ \A s \in 0..v : TierRank(Category(s)) <= TierRank(c)
          /\ \A s \in v..100 : TierRank(Category(s)) >= TierRank(c)

\* C12's boundary case: a final score of exactly 90 is Excellent
C12_Witness ==
    /\ rpc = "done"
    /\ returned.success
    /\ returned.analysis.health_score.value = 90
    /\ returned.analysis.health_score.category = "Excellent"

(***************************************************************************)
(* The retry protocol of rate_limited_gemini_call.wrapper, under Spec.     *)
(***************************************************************************)

\* C20: for any wrapped function, a quota/429 error of the first invocation
\* makes the limiter set the forced-retry deadline (the error's retry_delay
\* seconds, the default when absent) and the function is invoked exactly
\* once more, after a further acquire, an error of the second invocation
\* propagating; any other error of the first invocation propagates with
\* one invocation and no deadline set; the function is never invoked more
\* than twice in one wrapper call.
C20_RetryProtocol ==
    [][\A t \in Threads :
         LET first == pc[t] = "invoke" /\ attempt[t] = 1 /\ pc'[t] # "invoke"
             raised == FuncOutcome(fn[t], model_error'[t])
         IN /\ (first /\ raised = "quota")
                 => (pc'[t] = "handle" /\ invocations'[t] = 1)
            /\ (first /\ raised = "other")
                 => /\ pc'[t] = "raised"
                    /\ invocations'[t] = 1
                    /\ retry_delay' = retry_delay
                    /\ last_retry_time' = last_retry_time
            /\ (pc[t] = "handle" /\ pc'[t] # "handle")
                 => /\ pc'[t] = "wait"
                    /\ attempt'[t] = 2
                    /\ retry_delay'[fn[t]] =
                         (IF error[t].has THEN error[t].seconds
                                          ELSE DefaultRetryDelay)
                    /\ last_retry_time'[fn[t]] = now
            /\ (pc'[t] = "invoke" /\ pc[t] # "invoke") => pc[t] = "record"
            /\ (pc[t] = "invoke" /\ attempt[t] = 2 /\ pc'[t] # "invoke")
                 => (invocations'[t] = 2 /\ pc'[t] \in {"returned", "raised"})
            /\ invocations'[t] <= 2
            /\ (pc[t] \in {"returned", "raised"} /\ pc'[t] = "idle"
                   /\ FuncOutcome(fn[t], model_error[t]) = "quota")
                 => invocations[t] = 2]_vars

\* the positions of wait_if_needed between its first read of
\* request_timestamps and its last write to it
InsideReadModifyWrite == {"assign", "check", "record"}

\* C18: every write to a shared structure is made while holding that
\* structure's lock, so no two threads are ever inside a read-modify-write
\* of the same structure at once: here, of one limiter's request_timestamps.
C18_LockDiscipline ==
    \A t, u \in Threads :
        (t # u /\ fn[t] = fn[u])
        => ~(pc[t] \in InsideReadModifyWrite /\ pc[u] \in InsideReadModifyWrite)

(***************************************************************************)
(* Concurrent calls of extract_website_content, under SpecCache.           *)
(***************************************************************************)

\* C19: when several calls for the same URL, for which no call has
\* completed before, are in progress at once, at most one of them performs
\* the network fetch and all of them return the same signal data.
C19_RequestCollapsing ==
    \A t, u \in Threads :
        (/\ t # u
         /\ cpc[t] # "idle" /\ cpc[u] # "idle"
         /\ curl[t] = curl[u]
         /\ cprev[t] = <<>> /\ cprev[u] = <<>>)
        => /\ ~(fetched[t] /\ fetched[u])
           /\ (cpc[t] = "ret" /\ cpc[u] = "ret") => cres[t].data = cres[u].data

(***************************************************************************)
(* is_large_dimension(value, threshold=1200), lines 183-216.  The value is *)
(* the text of a width or height attribute, a sequence of characters.      *)
(***************************************************************************)

DigitChars == <<"0", "1", "2", "3", "4", "5", "6", "7", "8", "9">>

\* c.isdigit() for one character
IsDigit(c) == \E i \in 1..10 : DigitChars[i] = c

DigitValue(c) == (CHOOSE i \in 1..10 : DigitChars[i] = c) - 1

\* str.isdigit(): nonempty and every character a digit
isdigit(str) == Len(str) > 0 /\ \A i \in 1..Len(str) : IsDigit(str[i])

\* str.lower(), for the letters that occur in units
LowerChar(c) ==
    CASE c = "P" -> "p" [] c = "X" -> "x" [] c = "E" -> "e" [] c = "M" -> "m"
      [] OTHER -> c

lower(str) == [i \in 1..Len(str) |-> LowerChar(str[i])]

\* sub in str
Contains(str, sub) ==
    \E i \in 1..(Len(str) - Len(sub) + 1) : SubSeq(str, i, i + Len(sub) - 1) = sub

\* str.replace(sub, ''): every occurrence removed, left to right
RECURSIVE Remove(_, _)
Remove(str, sub) ==
    IF Len(str) < Len(sub) THEN str
    ELSE IF SubSeq(str, 1, Len(sub)) = sub
           THEN Remove(SubSeq(str, Len(sub) + 1, Len(str)), sub)
    ELSE <<str[1]>> \o Remove(Tail(str), sub)

\* int(str) for a string of digits
RECURSIVE ToInt(_)
ToInt(str) ==
    IF str = <<>> THEN 0
    ELSE 10 * ToInt(SubSeq(str, 1, Len(str) - 1)) + DigitValue(str[Len(str)])

\* float(str) succeeds, for a string of the characters of a dimension:
\* digits with at most one point and at least one digit
FloatParses(str) ==
    /\ \A i \in 1..Len(str) : IsDigit(str[i]) \/ str[i] = "."
    /\ Cardinality({i \in 1..Len(str) : str[i] = "."}) <= 1
    /\ \E i \in 1..Len(str) : IsDigit(str[i])

\* float(str) > limit, for a string that parses
FloatGreater(str, limit) ==
    LET points == {i \in 1..Len(str) : str[i] = "."}
        p == IF points = {} THEN Len(str) + 1 ELSE CHOOSE i \in points : TRUE
        whole == ToInt(SubSeq(str, 1, p - 1))
        fraction == SubSeq(str, p + 1, Len(str))
    IN \/ whole > limit
       \/ whole = limit /\ \E i \in 1..Len(fraction) : fraction[i] # "0"

\* ''.join([c for c in str(value) if c.isdigit() or c == '.']), line 204
NumericPart(str) == SelectSeq(str, LAMBDA c : IsDigit(c) \/ c = ".")

\* the default of the parameter threshold, line 183
threshold == 1200

\* is_large_dimension(value), lines 185-216; an exception of float() or
\* int() is caught on line 212 or 215 and False is returned
is_large_dimension(v) ==
    IF v = <<>> THEN FALSE
    ELSE IF isdigit(v) THEN ToInt(v) > threshold
    ELSE IF Contains(v, <<"%">>)
           THEN LET percentage == Remove(v, <<"%">>)
                IN FloatParses(percentage) /\ FloatGreater(percentage, 80)
    ELSE IF Contains(lower(v), <<"p", "x">>)
           THEN LET numeric_part == Remove(lower(v), <<"p", "x">>)
                IN isdigit(numeric_part) /\ ToInt(numeric_part) > threshold
    ELSE IF \/ Contains(lower(v), <<"e", "m">>)
            \/ Contains(lower(v), <<"r", "e", "m">>)
            \/ Contains(lower(v), <<"v", "w">>)
            \/ Contains(lower(v), <<"v", "h">>)
           THEN LET numeric_part == NumericPart(v)
                IN IF ~FloatParses(numeric_part) THEN FALSE
                   ELSE IF Contains(v, <<"e", "m">>) \/ Contains(v, <<"r", "e", "m">>)
                          THEN FloatGreater(numeric_part, 10)
                   ELSE IF Contains(v, <<"v", "w">>) \/ Contains(v, <<"v", "h">>)
                          THEN FloatGreater(numeric_part, 50)
                   ELSE FALSE
    ELSE FALSE

\* the decimal digits of a natural number, as the markup writes it
RECURSIVE Decimal(_)
Decimal(n) ==
    IF n < 10 THEN <<DigitChars[n + 1]>>
    ELSE Decimal(n \div 10) \o <<DigitChars[(n % 10) + 1]>>

\* the attribute text of a dimension: magnitude, optional ".5", unit
AttributeText(d) ==
    Decimal(d.magnitude)
      \o (IF d.half THEN <<".", "5">> ELSE <<>>)
      \o d.unit

\* magnitudes on both sides of each threshold
Magnitudes == {9, 10, 11, 12, 49, 50, 51, 60, 79, 80, 81, 90,
               1199, 1200, 1201, 1300}

\* the units of width and height values, in the two spellings HTML allows
Units == {<<>>, <<"p", "x">>, <<"P", "X">>, <<"%">>, <<"e", "m">>,
          <<"E", "M">>, <<"r", "e", "m">>, <<"v", "w">>, <<"v", "h">>}

Dimensions == [magnitude : Magnitudes, half : BOOLEAN, unit : Units]

\* lines 311-312: is_large_dimension(img.get('width')) is called
CallIsLarge(d) ==
    /\ dpc = "idle"
    /\ dimension' = d
    /\ value' = AttributeText(d)
    /\ dpc' = "called"
    /\ UNCHANGED <<now, limVars, cacheVars, repVars, sessVars, large>>

\* is_large_dimension('')
CallIsLargeEmpty ==
    /\ dpc = "idle"
    /\ value' = <<>>
    /\ dpc' = "called"
    /\ UNCHANGED <<now, limVars, cacheVars, repVars, sessVars, dimension, large>>

ReturnIsLarge ==
    /\ dpc = "called"
    /\ large' = is_large_dimension(value)
    /\ dpc' = "returned"
    /\ UNCHANGED <<now, limVars, cacheVars, repVars, sessVars, dimension, value>>

DimNext ==
    \/ \E d \in Dimensions : CallIsLarge(d)
    \/ CallIsLargeEmpty
    \/ ReturnIsLarge

SpecDim == Init /\ [][DimNext]_vars

\* the unit family of a unit
Family(unit) ==
    CASE unit = <<>> -> "bare"
      [] lower(unit) = <<"p", "x">> -> "px"
      [] unit = <<"%">> -> "%"
      [] lower(unit) \in {<<"e", "m">>, <<"r", "e", "m">>} -> "em/rem"
      [] OTHER -> "vw/vh"

\* d2 has a greater magnitude than d1
Greater(d2, d1) ==
    \/ d2.magnitude > d1.magnitude
    \/ d2.magnitude = d1.magnitude /\ d2.half /\ ~d1.half

\* the stated threshold of a family
FamilyThreshold(f) ==
    CASE f \in {"bare", "px"} -> 1200
      [] f = "%" -> 80
      [] f = "em/rem" -> 10
      [] OTHER -> 50

\* C13: is_large_dimension is monotonic in magnitude within each unit
\* family: when a value is classified large, every value of the same family
\* with a greater magnitude, non-integer magnitudes included, is large too;
\* a value is large exactly when its magnitude exceeds the family's
\* threshold (bare/px 1200, % 80, em/rem 10, vw/vh 50), and "" is not large.
\* Checked for the units in their lowercase spelling.
C13_MonotonicInMagnitude ==
    (dpc = "returned" /\ dimension.unit = lower(dimension.unit)) =>
        IF value = <<>> THEN ~large
        ELSE /\ large =>
                  \A d \in Dimensions :
                      (/\ d.unit = lower(d.unit)
                       /\ Family(d.unit) = Family(dimension.unit)
                       /\ Greater(d, dimension))
                      => is_large_dimension(AttributeText(d))
             /\ large = Greater(dimension,
                                [magnitude |-> FamilyThreshold(Family(dimension.unit)),
                                 half |-> FALSE, unit |-> dimension.unit])

(***************************************************************************)
(* The session store, cleanup_old_sessions and the request handlers: home, *)
(* status, analyze_url, analyze_url_json and chat_interaction.             *)
(***************************************************************************)

\* {'timestamp': time.time()}, lines 791, 871 and 967.  An absent key is
\* "": url is the last URL, website_data the url of the stored signal set
\* (its 'url' field), analysis the url of the signal set the stored
\* analysis was produced from
NewSession(t) ==
    [has_timestamp |-> TRUE, timestamp |-> t, url |-> "",
     website_data |-> "", analysis |-> ""]

\* a slip the test of line 651 could have: <= for <
Expired_inclusive(data, t) ==
    data.has_timestamp /\ data.timestamp <= t - SessionMaxAge

\* line 651: data['timestamp'] < now - 3600, for a session with a timestamp
Expired(data, t) ==
    data.has_timestamp /\ data.timestamp < t - SessionMaxAge

\* the store after the two loops of lines 648-655, run at time t
Swept(store, t) ==
    [sid \in {x \in DOMAIN store : ~Expired(store[x], t)} |->
        IF store[sid].has_timestamp
          THEN store[sid]
          ELSE [store[sid] EXCEPT !.has_timestamp = TRUE, !.timestamp = t]]

Response(status, text) == [status |-> status, text |-> text]

\* the messages of chat requests: a greeting, a question about a page, an
\* off-topic message
Messages == {"hello", "pricing page", "weather"}

\* line 725: any(greeting in user_message.lower() for greeting in [...])
IsGreeting(msg) == msg = "hello"

\* line 754: an off-topic keyword and no CRO term in the message
IsOffTopic(msg) == msg = "weather"

UserTurn(msg) == [role |-> "user", content |-> msg]
AssistantTurn(text) == [role |-> "assistant", content |-> text]

\* chat_histories.get(sid, [])
HistoryOf(sid) ==
    IF sid \in DOMAIN chat_histories THEN chat_histories[sid] ELSE <<>>

\* a request arrives: get_session_id() gives the cookie's session id
StartRequest(t, r, sid) ==
    /\ spc[t] = "idle"
    /\ nreq < MaxRequests
    /\ nreq' = nreq + 1
    /\ route' = [route EXCEPT ![t] = r]
    /\ ssid' = [ssid EXCEPT ![t] = sid]
    /\ sresp' = [sresp EXCEPT ![t] = NoResponse]
    /\ sgen' = [sgen EXCEPT ![t] = 0]

\* cleanup_old_sessions(), lines 642-658, the whole body under the lock
cleanup_old_sessions ==
    /\ session_data' = Swept(session_data, now)
    /\ last_sweep' =
         [removed |-> {x \in DOMAIN session_data : Expired(session_data[x], now)},
          stamped |-> {x \in DOMAIN session_data : ~session_data[x].has_timestamp},
          kept |-> {x \in DOMAIN session_data :
                      /\ session_data[x].has_timestamp
                      /\ ~Expired(session_data[x], now)},
          done |-> TRUE]

\* GET /, lines 957-959: the sweep is the handler's first statement
HomeStart(t, sid) ==
    /\ StartRequest(t, "home", sid)
    /\ cleanup_old_sessions
    /\ spc' = [spc EXCEPT ![t] = "check"]
    /\ last_used' = [last_used EXCEPT ![sid] = now]
    /\ UNCHANGED <<now, limVars, cacheVars, repVars, dimVars,
                   chat_histories, surl, smsg, sempty>>

\* GET /api/status, lines 942-953: the sweep, and the fixed status text
status(t, sid) ==
    /\ spc[t] = "idle"
    /\ nreq < MaxRequests
    /\ nreq' = nreq + 1
    /\ route' = [route EXCEPT ![t] = "status"]
    /\ ssid' = [ssid EXCEPT ![t] = sid]
    /\ sgen' = [sgen EXCEPT ![t] = 0]
    /\ cleanup_old_sessions
    /\ sresp' = [sresp EXCEPT ![t] = Response(200, "status")]
    /\ spc' = [spc EXCEPT ![t] = "respond"]
    /\ UNCHANGED <<now, limVars, cacheVars, repVars, dimVars,
                   chat_histories, surl, smsg, sempty, last_used>>

\* where a handler goes on once its session exists
AfterSession(r) == IF r = "home" THEN "respond" ELSE "url"

\* lines 789, 869 and 965: if session_id not in session_data, outside the lock
CheckSession(t) ==
    /\ spc[t] = "check"
    /\ spc' = [spc EXCEPT ![t] = IF ssid[t] \in DOMAIN session_data
                                   THEN AfterSession(route[t])
                                   ELSE "create"]
    /\ sresp' = [sresp EXCEPT ![t] =
                   IF ssid[t] \in DOMAIN session_data /\ route[t] = "home"
                     THEN Response(200, "home") ELSE @]
    /\ UNCHANGED <<now, limVars, cacheVars, repVars, dimVars, session_data,
                   chat_histories, route, ssid, surl, smsg, sgen, sempty,
                   last_used, last_sweep, nreq>>

\* POST /api/analyze, lines 784-789; /api/analyze/json treats the session
\* in the same way, lines 864-923
AnalyzeStart(t, sid, url) ==
    /\ StartRequest(t, "analyze", sid)
    /\ surl' = [surl EXCEPT ![t] = url]
    /\ spc' = [spc EXCEPT ![t] = "check"]
    /\ last_used' = [last_used EXCEPT ![sid] = now]
    /\ UNCHANGED <<now, limVars, cacheVars, repVars, dimVars, session_data,
                   chat_histories, smsg, sempty, last_sweep>>

\* lines 790-791, 870-871 and 966-967, under the lock
CreateSession(t) ==
    /\ spc[t] = "create"
    /\ session_data' = Put(session_data, ssid[t], NewSession(now))
    /\ spc' = [spc EXCEPT ![t] = AfterSession(route[t])]
    /\ sresp' = [sresp EXCEPT ![t] =
                   IF route[t] = "home" THEN Response(200, "home") ELSE @]
    /\ UNCHANGED <<now, limVars, cacheVars, repVars, dimVars,
                   chat_histories, route, ssid, surl, smsg, sgen, sempty,
                   last_used, last_sweep, nreq>>

\* lines 793-824: a missing or malformed url is answered 400; the url is
\* stored in the session, a KeyError (the session was swept meanwhile)
\* leaving the handler as a 500
StoreUrl(t) ==
    /\ spc[t] = "url"
    /\ IF surl[t] = ""
         THEN /\ sresp' = [sresp EXCEPT ![t] = Response(400, "ERROR")]
              /\ spc' = [spc EXCEPT ![t] = "respond"]
              /\ UNCHANGED session_data
         ELSE IF ssid[t] \notin DOMAIN session_data
                THEN /\ sresp' = [sresp EXCEPT ![t] = Response(500, "KeyError")]
                     /\ spc' = [spc EXCEPT ![t] = "respond"]
                     /\ UNCHANGED session_data
                ELSE /\ session_data' =
                          [session_data EXCEPT ![ssid[t]].url = surl[t]]
                     /\ spc' = [spc EXCEPT ![t] = "extract"]
                     /\ UNCHANGED sresp
    /\ UNCHANGED <<now, limVars, cacheVars, repVars, dimVars,
                   chat_histories, route, ssid, surl, smsg, sgen, sempty,
                   last_used, last_sweep, nreq>>

\* lines 826-844 (903-923): configure_gemini and extract_website_content;
\* ok = FALSE when either fails
ExtractContent(t, ok) ==
    /\ spc[t] = "extract"
    /\ IF ~ok
         THEN /\ sresp' = [sresp EXCEPT ![t] = Response(500, "ERROR")]
              /\ spc' = [spc EXCEPT ![t] = "respond"]
              /\ UNCHANGED session_data
         ELSE IF ssid[t] \notin DOMAIN session_data
                THEN /\ sresp' = [sresp EXCEPT ![t] = Response(500, "KeyError")]
                     /\ spc' = [spc EXCEPT ![t] = "respond"]
                     /\ UNCHANGED session_data
                ELSE /\ session_data' =
                          [session_data EXCEPT ![ssid[t]].website_data = surl[t]]
                     /\ spc' = [spc EXCEPT ![t] = "analyze"]
                     /\ UNCHANGED sresp
    /\ UNCHANGED <<now, limVars, cacheVars, repVars, dimVars,
                   chat_histories, route, ssid, surl, smsg, sgen, sempty,
                   last_used, last_sweep, nreq>>

\* lines 847-860 (926-938) with line 579: analyze_website stores the
\* analysis in the session; ok = FALSE when it returns the failure flag
AnalyzeWebsite(t, ok) ==
    /\ spc[t] = "analyze"
    /\ IF ok /\ ssid[t] \in DOMAIN session_data
         THEN /\ session_data' = [session_data EXCEPT ![ssid[t]].analysis = surl[t]]
              /\ sresp' = [sresp EXCEPT ![t] = Response(200, "report")]
         ELSE /\ sresp' = [sresp EXCEPT ![t] = Response(500, "ERROR")]
              /\ UNCHANGED session_data
    /\ spc' = [spc EXCEPT ![t] = "respond"]
    /\ UNCHANGED <<now, limVars, cacheVars, repVars, dimVars,
                   chat_histories, route, ssid, surl, smsg, sgen, sempty,
                   last_used, last_sweep, nreq>>

\* POST /api/chat, lines 664-690: a request without a message is answered
\* 400; otherwise the history is created if absent and the user turn appended
ChatStart(t, sid, msg) ==
    /\ StartRequest(t, "chat", sid)
    /\ smsg' = [smsg EXCEPT ![t] = msg]
    /\ sempty' = [sempty EXCEPT ![t] = HistoryOf(sid) = <<>>]
    /\ last_used' = [last_used EXCEPT ![sid] = now]
    /\ IF msg = ""
         THEN /\ spc' = [spc EXCEPT ![t] = "bad_request"]
              /\ UNCHANGED chat_histories
         ELSE /\ chat_histories' =
                   Put(chat_histories, sid, Append(HistoryOf(sid), UserTurn(msg)))
              /\ spc' = [spc EXCEPT ![t] = "chat_decide"]
    /\ UNCHANGED <<now, limVars, cacheVars, repVars, dimVars, session_data,
                   surl, last_sweep>>

\* lines 680-683
BadRequest(t) ==
    /\ spc[t] = "bad_request"
    /\ sresp' = [sresp EXCEPT ![t] = Response(400, "No message provided")]
    /\ spc' = [spc EXCEPT ![t] = "respond"]
    /\ UNCHANGED <<now, limVars, cacheVars, repVars, dimVars, session_data,
                   chat_histories, route, ssid, surl, smsg, sgen, sempty,
                   last_used, last_sweep, nreq>>

\* lines 692-728: configure_gemini (an exception goes to line 770), then
\* is_new_conversation and the greeting test
ChatDecide(t, configured) ==
    /\ spc[t] = "chat_decide"
    /\ LET is_new_conversation == Len(chat_histories[ssid[t]]) <= 1
       IN IF ~configured
            THEN /\ sresp' = [sresp EXCEPT ![t] = Response(500, "error")]
                 /\ spc' = [spc EXCEPT ![t] = "respond"]
            ELSE IF is_new_conversation /\ IsGreeting(smsg[t])
                   THEN /\ sresp' = [sresp EXCEPT ![t] = Response(200, "greeting")]
                        /\ spc' = [spc EXCEPT ![t] = "chat_append"]
                   ELSE /\ spc' = [spc EXCEPT ![t] = "chat_generate"]
                        /\ UNCHANGED sresp
    /\ UNCHANGED <<now, limVars, cacheVars, repVars, dimVars, session_data,
                   chat_histories, route, ssid, surl, smsg, sgen, sempty,
                   last_used, last_sweep, nreq>>

\* lines 731-757: model.generate_content(prompt), then the off-topic test
ChatGenerate(t, lib_ok) ==
    /\ spc[t] = "chat_generate"
    /\ sgen' = [sgen EXCEPT ![t] = @ + 1]
    /\ IF lib_ok
         THEN /\ sresp' = [sresp EXCEPT ![t] =
                             Response(200, IF IsOffTopic(smsg[t])
                                             THEN "redirect" ELSE "answer")]
              /\ spc' = [spc EXCEPT ![t] = "chat_append"]
         ELSE /\ sresp' = [sresp EXCEPT ![t] = Response(500, "error")]
              /\ spc' = [spc EXCEPT ![t] = "respond"]
    /\ UNCHANGED <<now, limVars, cacheVars, repVars, dimVars, session_data,
                   chat_histories, route, ssid, surl, smsg, sempty,
                   last_used, last_sweep, nreq>>

\* lines 760-768: the assistant turn is appended
ChatAppend(t) ==
    /\ spc[t] = "chat_append"
    /\ chat_histories' =
         [chat_histories EXCEPT ![ssid[t]] = Append(@, AssistantTurn(sresp[t].text))]
    /\ spc' = [spc EXCEPT ![t] = "respond"]
    /\ UNCHANGED <<now, limVars, cacheVars, repVars, dimVars, session_data,
                   route, ssid, surl, smsg, sresp, sgen, sempty, last_used,
                   last_sweep, nreq>>

\* the response is returned; the handler's locals are gone
Return(t) ==
    /\ spc[t] = "respond"
    /\ spc' = [spc EXCEPT ![t] = "idle"]
    /\ route' = [route EXCEPT ![t] = "home"]
    /\ ssid' = [ssid EXCEPT ![t] = "s1"]
    /\ surl' = [surl EXCEPT ![t] = ""]
    /\ smsg' = [smsg EXCEPT ![t] = ""]
    /\ sresp' = [sresp EXCEPT ![t] = NoResponse]
    /\ sgen' = [sgen EXCEPT ![t] = 0]
    /\ sempty' = [sempty EXCEPT ![t] = FALSE]
    /\ UNCHANGED <<now, limVars, cacheVars, repVars, dimVars, session_data,
                   chat_histories, last_used, last_sweep, nreq>>

SessNext ==
    \/ Tick
    \/ \E t \in Threads, sid \in SessionIds : HomeStart(t, sid)
    \/ \E t \in Threads, sid \in SessionIds : status(t, sid)
    \/ \E t \in Threads, sid \in SessionIds, url \in {"u1", ""} :
          AnalyzeStart(t, sid, url)
    \/ \E t \in Threads : CheckSession(t)
    \/ \E t \in Threads : CreateSession(t)
    \/ \E t \in Threads : StoreUrl(t)
    \/ \E t \in Threads, ok \in BOOLEAN : ExtractContent(t, ok)
    \/ \E t \in Threads, ok \in BOOLEAN : AnalyzeWebsite(t, ok)
    \/ \E t \in Threads, sid \in SessionIds, msg \in Messages \cup {""} :
          ChatStart(t, sid, msg)
    \/ \E t \in Threads : BadRequest(t)
    \/ \E t \in Threads, configured \in BOOLEAN : ChatDecide(t, configured)
    \/ \E t \in Threads, lib_ok \in BOOLEAN : ChatGenerate(t, lib_ok)
    \/ \E t \in Threads : ChatAppend(t)
    \/ \E t \in Threads : Return(t)

SpecSession == Init /\ [][SessNext]_vars

\* sessions that requests served at time 0 have left in the store: new, or
\* with an analysis
SessionsAtStart ==
    {NewSession(0),
     [NewSession(0) EXCEPT !.url = "u1", !.website_data = "u1", !.analysis = "u1"]}

\* a session dict without 'timestamp', the case lines 649-650 provide for
\* (no handler creates one)
Untimestamped ==
    [has_timestamp |-> FALSE, timestamp |-> 0, url |-> "",
     website_data |-> "", analysis |-> ""]

\* the stores holding sessions of the given kinds
Stores(kinds) == UNION {[S -> kinds] : S \in SUBSET SessionIds}

\* the server some requests after its start
InitRunning ==
    /\ now = 0 /\ LimInit /\ CacheInit /\ RepIdle /\ DimIdle
    /\ session_data \in Stores(SessionsAtStart)
    /\ HandlersIdle

SpecRunning == InitRunning /\ [][SessNext]_vars

\* the handlers that read or write session_data
StoreNext ==
    \/ Tick
    \/ \E t \in Threads, sid \in SessionIds : HomeStart(t, sid)
    \/ \E t \in Threads, sid \in SessionIds : status(t, sid)
    \/ \E t \in Threads, sid \in SessionIds, url \in {"u1", ""} :
          AnalyzeStart(t, sid, url)
    \/ \E t \in Threads : CheckSession(t)
    \/ \E t \in Threads : CreateSession(t)
    \/ \E t \in Threads : StoreUrl(t)
    \/ \E t \in Threads, ok \in BOOLEAN : ExtractContent(t, ok)
    \/ \E t \in Threads, ok \in BOOLEAN : AnalyzeWebsite(t, ok)
    \/ \E t \in Threads : Return(t)

\* cleanup_old_sessions over any store, sessions without a timestamp included
InitSweep ==
    /\ now = 0 /\ LimInit /\ CacheInit /\ RepIdle /\ DimIdle
    /\ session_data \in Stores(SessionsAtStart \cup {Untimestamped})
    /\ HandlersIdle

SpecSweep == InitSweep /\ [][StoreNext]_vars

(***************************************************************************)
(* Claims about sessions, checked under SpecSweep, SpecRunning and         *)
(* SpecSession.                                                            *)
(***************************************************************************)

\* a step in which some handler runs cleanup_old_sessions
SweepStep ==
    \E t \in Threads :
        /\ spc[t] = "idle"
        /\ spc'[t] # "idle"
        /\ route'[t] \in {"home", "status"}

\* C14: after cleanup_old_sessions completes at time now, no session with a
\* timestamp older than now - 3600 s remains in the store, every session
\* whose timestamp is not older than that is still present with its
\* contents unchanged, and a session that had no timestamp is kept and
\* given the timestamp now.
C14_SessionSweep ==
    [][SweepStep =>
         /\ DOMAIN session_data' \subseteq DOMAIN session_data
         /\ \A sid \in DOMAIN session_data' :
                /\ session_data'[sid].has_timestamp
                /\ session_data'[sid].timestamp >= now - SessionMaxAge
         /\ \A sid \in DOMAIN session_data :
                LET data == session_data[sid]
                IN IF ~data.has_timestamp
                     THEN /\ sid \in DOMAIN session_data'
                          /\ session_data'[sid] =
                               [data EXCEPT !.has_timestamp = TRUE,
                                            !.timestamp = now]
                   ELSE IF data.timestamp < now - SessionMaxAge
                     THEN sid \notin DOMAIN session_data'
                   ELSE /\ sid \in DOMAIN session_data'
                        /\ session_data'[sid] = data]_vars

\* C14's case: a sweep has removed an old session and kept a younger one
C14_Witness ==
    /\ last_sweep.done
    /\ last_sweep.removed # {}
    /\ last_sweep.kept # {}
    /\ last_sweep.removed \cap DOMAIN session_data = {}
    /\ last_sweep.kept \subseteq DOMAIN session_data

\* C15: a sweep deletes a session only if no request has used it (analyze,
\* analyze/json, chat or home with that session_id) during the preceding
\* hour.
C15_EvictedOnInactivity ==
    [][SweepStep =>
         \A sid \in DOMAIN session_data :
             sid \notin DOMAIN session_data'
                => now - last_used[sid] >= SessionMaxAge]_vars

\* C16: once a sweep has deleted a session, none of its per-user state
\* remains: its conversation history is gone with the session entry.
C16_HistoryEvictedWithSession ==
    [][\A sid \in DOMAIN session_data :
          sid \notin DOMAIN session_data'
             => (sid \notin DOMAIN chat_histories' \/ chat_histories'[sid] = <<>>)]_vars

\* C17: a chat request that found its session's history empty and whose
\* message is a greeting is answered with the fixed greeting text without
\* generate_content being invoked, and leaves the history holding exactly
\* the user turn and the assistant greeting turn; a greeting that found a
\* non-empty history is answered by the model.
C17_GreetingShortCircuit ==
    \A t \in Threads :
        (spc[t] = "respond" /\ route[t] = "chat" /\ IsGreeting(smsg[t]))
        => IF sempty[t]
             THEN /\ sresp[t] = Response(200, "greeting")
                  /\ sgen[t] = 0
                  /\ chat_histories[ssid[t]] =
                       <<UserTurn(smsg[t]), AssistantTurn("greeting")>>
             ELSE sgen[t] = 1

(***************************************************************************)
(* The forced-retry deadline of wait_if_needed, under Spec.                *)
(***************************************************************************)

\* C21: an acquire that starts while the limiter's forced-retry deadline is
\* in the future waits for the deadline before the pruning and the quota
\* check, and neither records its call nor returns before the deadline has
\* elapsed; so no wrapped call is recorded or issued through a limiter
\* while a deadline of that limiter is set and has not elapsed, also when
\* other threads are inside the wrapper.
C21_DeadlineBeforeCalls ==
    [][\A t \in Threads :
         /\ (pc[t] = "wait" /\ pc'[t] # "wait" /\ now < Deadline(fn[t]))
              => (pc'[t] = "sleep_retry" /\ wake'[t] = Deadline(fn[t]))
         /\ (pc[t] = "sleep_retry" /\ pc'[t] # "sleep_retry")
              => (now >= wake[t] /\ pc'[t] = "prune")
         /\ (pc'[t] = "prune" /\ pc[t] # "prune")
              => pc[t] \in {"wait", "sleep_retry"}
         /\ (pc[t] = "record" /\ pc'[t] # "record")
              => now >= Deadline(fn[t])
         /\ (pc[t] = "invoke" /\ pc'[t] # "invoke")
              => now >= Deadline(fn[t])]_vars

(***************************************************************************)
(* Sweeps interleaved with analyze requests, under SpecRunning.            *)
(***************************************************************************)

\* C22: an analyze request whose session entry existed or was created at
\* the start of the request never fails because a concurrent sweep deleted
\* the session: while the request has an access to session_data[session_id]
\* ahead of it (storing url, website_data, analysis) the entry exists, and
\* no access raises KeyError.
C22_SessionOutlivesRequest ==
    \A t \in Threads :
        route[t] = "analyze" =>
            /\ ((spc[t] = "url" /\ surl[t] # "") \/ spc[t] \in {"extract", "analyze"})
                  => ssid[t] \in DOMAIN session_data
            /\ spc[t] = "respond" => sresp[t].text # "KeyError"

(***************************************************************************)
(* Sequences of analyze requests, under SpecAnalyze.                       *)
(***************************************************************************)

\* an analyze request arrives when no other request is being served
AnalyzeInTurn(t, sid, url) ==
    /\ \A u \in Threads : spc[u] = "idle"
    /\ AnalyzeStart(t, sid, url)

\* the analyze handlers alone, with every url, the requests served one
\* after the other
AnalyzeNext ==
    \/ Tick
    \/ \E t \in Threads, sid \in SessionIds, url \in URLs \cup {""} :
          AnalyzeInTurn(t, sid, url)
    \/ \E t \in Threads : CheckSession(t)
    \/ \E t \in Threads : CreateSession(t)
    \/ \E t \in Threads : StoreUrl(t)
    \/ \E t \in Threads, ok \in BOOLEAN : ExtractContent(t, ok)
    \/ \E t \in Threads, ok \in BOOLEAN : AnalyzeWebsite(t, ok)
    \/ \E t \in Threads : Return(t)

SpecAnalyze == Init /\ [][AnalyzeNext]_vars

\* C23: after any sequence of analyze requests in a session (no request in
\* progress), when the session holds both a last URL and a signal set the
\* signal set's url is the last URL, and a stored analysis was produced
\* from the stored signal set.
C23_SessionConsistent ==
    (\A t \in Threads : spc[t] = "idle") =>
        \A sid \in DOMAIN session_data :
            LET data == session_data[sid]
            IN /\ (data.url # "" /\ data.website_data # "")
                    => data.website_data = data.url
               /\ data.analysis # "" => data.analysis = data.website_data

=============================================================================
